---- MODULE Spec2Model ----
(***************************************************************************)
(* ALLA proof of concept: the semantic-graph crawler (src/src/parser.py),  *)
(* the graph store (src/src/graph.py), the definition provider             *)
(* (src/src/api_client.py) and the search layer                            *)
(* (src/src/semantic_search.py).                                           *)
(*                                                                         *)
(* A character is a one-character string, a text and a word are sequences  *)
(* of characters, so that len(), lower(), the regular expression of        *)
(* _extract_words and the substring tests of _is_relevant are computed on  *)
(* the characters themselves.                                              *)
(***************************************************************************)
EXTENDS Integers, Sequences, FiniteSets, TLC

LowerLetters ==
  { "a", "b", "c", "d", "e", "f", "g", "h", "i", "j", "k", "l", "m", "n", "o", "p", "q", "r",
    "s", "t", "u", "v", "w", "x", "y", "z" }

UpperLetters ==
  { "A", "B", "C", "D", "E", "F", "G", "H", "I", "J", "K", "L", "M", "N", "O", "P", "Q", "R",
    "S", "T", "U", "V", "W", "X", "Y", "Z" }

Digits ==
  { "0", "1", "2", "3", "4", "5", "6", "7", "8", "9" }

\* str.lower() on one character
LowerChar(c) ==
  CASE c = "A" -> "a"
    [] c = "B" -> "b"
    [] c = "C" -> "c"
    [] c = "D" -> "d"
    [] c = "E" -> "e"
    [] c = "F" -> "f"
    [] c = "G" -> "g"
    [] c = "H" -> "h"
    [] c = "I" -> "i"
    [] c = "J" -> "j"
    [] c = "K" -> "k"
    [] c = "L" -> "l"
    [] c = "M" -> "m"
    [] c = "N" -> "n"
    [] c = "O" -> "o"
    [] c = "P" -> "p"
    [] c = "Q" -> "q"
    [] c = "R" -> "r"
    [] c = "S" -> "s"
    [] c = "T" -> "t"
    [] c = "U" -> "u"
    [] c = "V" -> "v"
    [] c = "W" -> "w"
    [] c = "X" -> "x"
    [] c = "Y" -> "y"
    [] c = "Z" -> "z"
    [] OTHER -> c

\* str.lower()
Lower(text) ==
  [i \in 1..Len(text) |-> LowerChar(text[i])]

\* the class \w of the regular expression
IsWordChar(c) ==
  c \in LowerLetters \cup UpperLetters \cup Digits \cup {"_"}

\* self.stop_words
stop_words ==
  { <<"a">>, <<"a","n">>, <<"t","h","e">>, <<"a","b","o","a","r","d">>,
    <<"a","b","o","u","t">>, <<"a","b","o","v","e">>, <<"a","c","r","o","s","s">>,
    <<"a","f","t","e","r">>, <<"a","g","a","i","n","s","t">>, <<"a","l","o","n","g">>,
    <<"a","m","i","d">>, <<"a","m","o","n","g">>, <<"a","r","o","u","n","d">>, <<"a","s">>,
    <<"a","t">>, <<"b","e","f","o","r","e">>, <<"b","e","h","i","n","d">>,
    <<"b","e","l","o","w">>, <<"b","e","n","e","a","t","h">>, <<"b","e","s","i","d","e">>,
    <<"b","e","t","w","e","e","n">>, <<"b","e","y","o","n","d">>, <<"b","u","t">>, <<"b","y">>,
    <<"c","o","n","c","e","r","n","i","n","g">>,
    <<"c","o","n","s","i","d","e","r","i","n","g">>, <<"d","e","s","p","i","t","e">>,
    <<"d","o","w","n">>, <<"d","u","r","i","n","g">>, <<"e","x","c","e","p","t">>,
    <<"f","o","r">>, <<"f","r","o","m">>, <<"i","n">>, <<"i","n","s","i","d","e">>,
    <<"i","n","t","o">>, <<"l","i","k","e">>, <<"n","e","a","r">>, <<"o","f">>,
    <<"o","f","f">>, <<"o","n">>, <<"o","n","t","o">>, <<"o","u","t">>,
    <<"o","u","t","s","i","d","e">>, <<"o","v","e","r">>, <<"p","a","s","t">>,
    <<"r","e","g","a","r","d","i","n","g">>, <<"r","o","u","n","d">>, <<"s","i","n","c","e">>,
    <<"t","h","r","o","u","g","h">>, <<"t","h","r","o","u","g","h","o","u","t">>, <<"t","o">>,
    <<"t","o","w","a","r","d">>, <<"u","n","d","e","r">>,
    <<"u","n","d","e","r","n","e","a","t","h">>, <<"u","n","t","i","l">>, <<"u","n","t","o">>,
    <<"u","p">>, <<"u","p","o","n">>, <<"w","i","t","h">>, <<"w","i","t","h","i","n">>,
    <<"w","i","t","h","o","u","t">>, <<"a","n","d">>, <<"o","r">>, <<"b","u","t">>,
    <<"n","o","r">>, <<"f","o","r">>, <<"s","o">>, <<"y","e","t">>, <<"a","l","s","o">>,
    <<"o","f","t","e","n">>, <<"v","e","r","y">>, <<"j","u","s","t">>, <<"o","n","l","y">>,
    <<"n","o","t">>, <<"n","o">>, <<"y","e","s">>, <<"w","e","l","l">>, <<"t","o","o">> }

(***************************************************************************)
(* Text helpers.                                                           *)
(***************************************************************************)

\* re.findall(r'\b\w+\b', text): the maximal runs of word characters of
\* text[i..], cur being the run that is open at position i
RECURSIVE findall(_, _, _)
findall(text, i, cur) ==
  IF i > Len(text)
    THEN IF cur = <<>> THEN <<>> ELSE <<cur>>
    ELSE IF IsWordChar(text[i])
           THEN findall(text, i + 1, Append(cur, text[i]))
           ELSE IF cur = <<>>
                  THEN findall(text, i + 1, <<>>)
                  ELSE <<cur>> \o findall(text, i + 1, <<>>)

\* [word for word in words if word not in self.stop_words]
RECURSIVE NotStop(_)
NotStop(words) ==
  IF words = <<>>
    THEN <<>>
    ELSE IF Head(words) \in stop_words
           THEN NotStop(Tail(words))
           ELSE <<Head(words)>> \o NotStop(Tail(words))

\* Phase1_Parser._extract_words
_extract_words(text) ==
  NotStop(findall(Lower(text), 1, <<>>))

\* the elements of a list
Range(s) ==
  {s[i] : i \in 1..Len(s)}

\* Python's `a in b` on two strings
IsSubstring(a, b) ==
  \E k \in 0..(Len(b) - Len(a)) : \A i \in 1..Len(a) : b[k + i] = a[i]

(***************************************************************************)
(* Graph store: SemanticGraph over networkx.Graph.  nodes is the node list *)
(* in insertion order, data the 'data' attribute of each node, edges the   *)
(* set of unordered pairs {a, b} (a self-loop is {a}), weight the 'weight' *)
(* attribute of each edge.                                                 *)
(***************************************************************************)

\* SemanticGraph.__init__
EmptyGraph ==
  [nodes |-> <<>>, data |-> <<>>, edges |-> {}, weight |-> <<>>]

\* SemanticNode.__init__
SemanticNode(word, pos, definition) ==
  [word |-> word, pos |-> pos, definition |-> definition]

\* self.graph.has_node(word)
has_node(G, word) ==
  word \in Range(G.nodes)

\* self.graph.has_edge(word1, word2)
has_edge(G, word1, word2) ==
  {word1, word2} \in G.edges

\* SemanticGraph.add_node: networkx appends a new node and overwrites the
\* attributes of an existing one
add_node(G, node) ==
  [G EXCEPT !.nodes = IF has_node(G, node.word) THEN @ ELSE Append(@, node.word),
            !.data  = [w \in (DOMAIN @) \cup {node.word} |->
                         IF w = node.word THEN node ELSE @[w]]]

\* the node list after networkx has been handed the node w: a missing node is
\* appended (with no 'data' attribute), a present one stays in place
nx_touch(nodes, w) ==
  IF w \in Range(nodes) THEN nodes ELSE Append(nodes, w)

\* networkx.Graph.add_edge(u, v, weight=weight): missing endpoints become nodes,
\* the edge is created, or the attributes of the existing edge are updated
nx_add_edge(G, word1, word2, weight) ==
  [G EXCEPT !.nodes  = nx_touch(nx_touch(@, word1), word2),
            !.edges  = @ \cup {{word1, word2}},
            !.weight = [e \in (DOMAIN @) \cup {{word1, word2}} |->
                          IF e = {word1, word2} THEN weight ELSE @[e]]]

\* SemanticGraph.add_edge with `or` in place of `and` in its guard
add_edge_or(G, word1, word2, weight) ==
  IF has_node(G, word1) \/ has_node(G, word2)
    THEN [graph |-> nx_add_edge(G, word1, word2, weight), raised |-> FALSE]
    ELSE [graph |-> G, raised |-> TRUE]

\* SemanticGraph.add_edge: the new graph, and whether ValueError is raised
add_edge(G, word1, word2, weight) ==
  IF has_node(G, word1) /\ has_node(G, word2)
    THEN [graph |-> nx_add_edge(G, word1, word2, weight), raised |-> FALSE]
    ELSE [graph |-> G, raised |-> TRUE]

\* SemanticGraph.get_node: <<>> stands for None, <<node>> for the node
get_node(G, word) ==
  IF has_node(G, word) THEN <<G.data[word]>> ELSE <<>>

\* bool(x) of an optional value or list
Truthy(x) ==
  x # <<>>

\* the words that have a SemanticNode in the store
NodeWords(G) ==
  {w \in Range(G.nodes) : w \in DOMAIN G.data}

(***************************************************************************)
(* State.                                                                  *)
(***************************************************************************)
VARIABLES
  initial_definition,  \* Phase1_Parser.initial_definition, a text
  context_keywords,    \* Phase1_Parser.context_keywords, in the set's iteration order
  max_hops,            \* Phase1_Parser.max_hops
  api,                 \* what the dictionary service answers for each word
  cache,               \* FreeDictionaryClient.cache
  files,               \* the files on disk: cache.json and the files under output/
  calls,               \* history: number of get_definition calls per word
  requests,            \* history: number of requests.get calls per word
  graph,               \* Phase1_Parser.graph
  processed_words,     \* Phase1_Parser.processed_words
  hop_of,              \* history: the hop at which each processed word was processed
  queue,               \* build_graph: queue
  pc,                  \* build_graph: position in the code
  word,                \* build_graph: word
  current_hop,         \* build_graph: current_hop
  definition_words,    \* build_graph: the part of definition_words still to examine
  last                 \* the last call made on the store or the searcher, with its outcome

vars ==
  <<initial_definition, context_keywords, max_hops, api, cache, files, calls, requests, graph,
    processed_words, hop_of, queue, pc, word, current_hop, definition_words, last>>

(***************************************************************************)
(* Definition provider: FreeDictionaryClient.                              *)
(***************************************************************************)

\* FreeDictionaryClient.CACHE_FILE
CACHE_FILE ==
  "cache.json"

\* the provider's state as the operators below thread it
Provider ==
  [cache |-> cache, files |-> files, calls |-> calls, requests |-> requests]

\* f with f[k] = v
Put(f, k, v) ==
  [x \in (DOMAIN f) \cup {k} |-> IF x = k THEN v ELSE f[x]]

\* f with the counter of k raised by one
Count(f, k) ==
  Put(f, k, IF k \in DOMAIN f THEN f[k] + 1 ELSE 1)

\* json.dump of the cache: None becomes null, a response is written as it is
json_dump(c) ==
  [w \in DOMAIN c |-> IF c[w] = <<>> THEN <<"null">> ELSE <<"value", c[w]>>]

\* json.load of a cache file: null becomes None
json_load(body) ==
  [w \in DOMAIN body |-> IF body[w][1] = "null" THEN <<>> ELSE body[w][2]]

\* FreeDictionaryClient._load_cache: an unreadable file gives the empty cache
_load_cache(fs) ==
  IF CACHE_FILE \in DOMAIN fs
    THEN IF fs[CACHE_FILE].valid THEN json_load(fs[CACHE_FILE].body) ELSE <<>>
    ELSE <<>>

\* the cache kept in memory only
_save_cache_never(fs, c) ==
  fs

\* FreeDictionaryClient._save_cache
_save_cache(fs, c) ==
  Put(fs, CACHE_FILE, [valid |-> TRUE, body |-> json_dump(c)])

\* get_definition answering a failed request with an entry of no part of
\* speech and an empty definition
get_definition_stub(p, w) ==
  LET answer == IF api[w] = <<>>
                  THEN <<[partOfSpeech |-> "", definition |-> <<>>]>>
                  ELSE api[w]
  IN
  IF w \in DOMAIN p.cache
    THEN [data |-> p.cache[w],
          p    |-> [p EXCEPT !.calls = Count(@, w)]]
    ELSE [data |-> answer,
          p    |-> [cache    |-> Put(p.cache, w, answer),
                    files    |-> _save_cache(p.files, Put(p.cache, w, answer)),
                    calls    |-> Count(p.calls, w),
                    requests |-> Count(p.requests, w)]]

\* FreeDictionaryClient.get_definition: <<>> stands for None, <<entry>> for the
\* response, entry being its first meaning (partOfSpeech, first definition)
get_definition(p, w) ==
  IF w \in DOMAIN p.cache
    THEN [data |-> p.cache[w],
          p    |-> [p EXCEPT !.calls = Count(@, w)]]
    ELSE [data |-> api[w],
          p    |-> [cache    |-> Put(p.cache, w, api[w]),
                    files    |-> _save_cache(p.files, Put(p.cache, w, api[w])),
                    calls    |-> Count(p.calls, w),
                    requests |-> Count(p.requests, w)]]

(***************************************************************************)
(* Relevance classifier: Phase1_Parser._is_relevant.                       *)
(***************************************************************************)

\* self._extract_words(self.initial_definition)
initial_words ==
  _extract_words(initial_definition)

\* the lookup of the first context keyword only
keyword_lookup_first(w, keywords, p) ==
  IF keywords = <<>>
    THEN [verdict |-> FALSE, p |-> p]
    ELSE LET keyword == Head(keywords) IN
         IF Len(keyword) > 3
           THEN LET keyword_data == get_definition(p, keyword) IN
                [verdict |-> /\ Truthy(keyword_data.data)
                             /\ IsSubstring(w, Lower(keyword_data.data[1].definition)),
                 p |-> keyword_data.p]
           ELSE [verdict |-> FALSE, p |-> p]

\* the loop over the context keywords that looks up each keyword's definition
RECURSIVE keyword_lookup(_, _, _)
keyword_lookup(w, keywords, p) ==
  IF keywords = <<>>
    THEN [verdict |-> FALSE, p |-> p]
    ELSE LET keyword == Head(keywords) IN
         IF Len(keyword) > 3
           THEN LET keyword_data == get_definition(p, keyword) IN
                IF Truthy(keyword_data.data)
                   /\ IsSubstring(w, Lower(keyword_data.data[1].definition))
                  THEN [verdict |-> TRUE, p |-> keyword_data.p]
                  ELSE keyword_lookup(w, Tail(keywords), keyword_data.p)
           ELSE keyword_lookup(w, Tail(keywords), p)

\* the length guard with `<` in place of `<=`
too_short_lt(w) ==
  Len(w) < 2 /\ w \notin Range(initial_words)

\* the guard on very short words
too_short(w) ==
  Len(w) <= 2 /\ w \notin Range(initial_words)

\* the part-of-speech filter with adverbs let through
pos_admissible_adverb(pos) ==
  pos \in {"noun", "verb", "adjective", "adverb"}

\* the part-of-speech filter
pos_admissible(pos) ==
  pos \in {"noun", "verb", "adjective"}

\* _is_relevant with the keyword lookups made before the test on the seed tokens
_is_relevant_lookup_first(w, definition_text, pos, p) ==
  LET keywords == Range(context_keywords)
      def_words == Range(_extract_words(definition_text))
  IN
  IF too_short(w)
    THEN [verdict |-> FALSE, p |-> p]
  ELSE IF ~pos_admissible(pos)
    THEN [verdict |-> FALSE, p |-> p]
  ELSE IF w \in keywords
    THEN [verdict |-> TRUE, p |-> p]
  ELSE IF \E keyword \in keywords :
            (IsSubstring(keyword, w) \/ IsSubstring(w, keyword)) /\ Len(keyword) > 3
    THEN [verdict |-> TRUE, p |-> p]
  ELSE IF keywords \cap def_words # {}
    THEN [verdict |-> TRUE, p |-> p]
  ELSE IF \E keyword \in keywords :
            /\ Len(keyword) > 3
            /\ \E def_word \in def_words :
                 /\ Len(def_word) > 3
                 /\ (IsSubstring(keyword, def_word) \/ IsSubstring(def_word, keyword))
    THEN [verdict |-> TRUE, p |-> p]
  ELSE IF keyword_lookup(w, context_keywords, p).verdict
    THEN keyword_lookup(w, context_keywords, p)
  ELSE [verdict |-> w \in Range(initial_words), p |-> keyword_lookup(w, context_keywords, p).p]

\* Phase1_Parser._is_relevant: the verdict and the provider after the call
_is_relevant(w, definition_text, pos, p) ==
  LET keywords == Range(context_keywords)
      def_words == Range(_extract_words(definition_text))
  IN
  IF too_short(w)
    THEN [verdict |-> FALSE, p |-> p]
  ELSE IF ~pos_admissible(pos)
    THEN [verdict |-> FALSE, p |-> p]
  ELSE IF w \in keywords
    THEN [verdict |-> TRUE, p |-> p]
  ELSE IF \E keyword \in keywords :
            (IsSubstring(keyword, w) \/ IsSubstring(w, keyword)) /\ Len(keyword) > 3
    THEN [verdict |-> TRUE, p |-> p]
  ELSE IF keywords \cap def_words # {}
    THEN [verdict |-> TRUE, p |-> p]
  ELSE IF \E keyword \in keywords :
            /\ Len(keyword) > 3
            /\ \E def_word \in def_words :
                 /\ Len(def_word) > 3
                 /\ (IsSubstring(keyword, def_word) \/ IsSubstring(def_word, keyword))
    THEN [verdict |-> TRUE, p |-> p]
  ELSE IF w \in Range(initial_words)
    THEN [verdict |-> TRUE, p |-> p]
  ELSE keyword_lookup(w, context_keywords, p)

(***************************************************************************)
(* Inputs of a construction run.                                           *)
(***************************************************************************)

\* largest max_hops of a run
MaxHops == 1

cat == <<"c", "a", "t">>
ox == <<"o", "x">>
pine == <<"p", "i", "n", "e">>
spine == <<"s", "p", "i", "n", "e">>

\* the seed texts a run may start from
SeedTexts ==
  { <<"A", " ", "C", "a", "t", " ", "o", "f", " ", "p", "i", "n", "e">>,
    <<"p", "i", "n", "e", " ", "c", "a", "t">>,
    <<"S", "p", "i", "n", "e", ",", " ", "o", "x", ".">> }

\* the context keywords a run may be given, in iteration order
KeywordChoices ==
  { <<pine>>, <<cat, ox>>, <<spine, pine>>, <<pine, spine>> }

\* the definition texts the dictionary service may answer with
DefTexts ==
  { <<"A", " ", "p", "i", "n", "e", " ", "c", "a", "t">>,
    <<"O", "x", " ", "o", "f", " ", "t", "h", "e", " ", "S", "p", "i", "n", "e">> }

\* the partOfSpeech tags the dictionary service may answer with
PosTags ==
  { "noun", "adverb" }

\* every word a run can meet
Vocabulary ==
  UNION {Range(_extract_words(t)) : t \in SeedTexts \cup DefTexts}
    \cup UNION {Range(k) : k \in KeywordChoices}

\* the answers of the dictionary service for one word: a failure, or a first meaning
Responses ==
  {<<>>} \cup {<<[partOfSpeech |-> t, definition |-> d]>> : t \in PosTags, d \in DefTexts}

(***************************************************************************)
(* Graph crawler: Phase1_Parser.build_graph.                               *)
(***************************************************************************)

NoCall ==
  [op |-> "none"]

\* Phase1_Parser.__init__, FreeDictionaryClient.__init__ with no file on disk
Init ==
  /\ initial_definition \in SeedTexts
  /\ context_keywords \in KeywordChoices
  /\ max_hops \in 0..MaxHops
  /\ api \in [Vocabulary -> Responses]
  /\ files = <<>>
  /\ cache = _load_cache(files)
  /\ calls = <<>>
  /\ requests = <<>>
  /\ graph = EmptyGraph
  /\ processed_words = {}
  /\ hop_of = <<>>
  /\ queue = <<>>
  /\ pc = "start"
  /\ word = <<>>
  /\ current_hop = 0
  /\ definition_words = <<>>
  /\ last = NoCall

\* queue = [(word, 0) for word in initial_words]
Start ==
  /\ pc = "start"
  /\ queue' = [i \in 1..Len(initial_words) |-> <<initial_words[i], 0>>]
  /\ pc' = "loop"
  /\ UNCHANGED <<initial_definition, context_keywords, max_hops, api, cache, files, calls,
                 requests, graph, processed_words, hop_of, word, current_hop,
                 definition_words, last>>

\* the node of the word added to the node list without the test for an
\* existing node
with_node_again(G, w, pos, definition) ==
  [G EXCEPT !.nodes = Append(@, w),
            !.data  = Put(@, w, SemanticNode(w, pos, definition))]

\* the node of the word being processed: created unless it exists
with_node(G, w, pos, definition) ==
  IF get_node(G, w) = <<>> THEN add_node(G, SemanticNode(w, pos, definition)) ELSE G

\* the acceptance test of the dequeued word without its `or current_hop == 0`
accepted_classifier_only(verdict, hop) ==
  verdict

\* the acceptance test of the dequeued word without the classifier
accepted_seed_only(verdict, hop) ==
  hop = 0

\* the acceptance test of the dequeued word
accepted(verdict, hop) ==
  verdict \/ hop = 0

\* the edge to an already processed word, added straight on the networkx graph
link_processed_direct(G, w, new_word) ==
  [graph |-> nx_add_edge(G, w, new_word, 1), raised |-> FALSE]

\* the edge to an already processed word never added
link_processed_never(G, w, new_word) ==
  [graph |-> G, raised |-> FALSE]

\* the edge to an already processed word
link_processed(G, w, new_word) ==
  IF /\ Truthy(get_node(G, new_word))
     /\ Truthy(get_node(G, w))
     /\ ~has_edge(G, w, new_word)
    THEN add_edge(G, w, new_word, 1)
    ELSE [graph |-> G, raised |-> FALSE]

\* the node of an accepted candidate without its edge
link_new_unlinked(G, w, new_word, new_pos, new_definition_text) ==
  [graph |-> with_node(G, new_word, new_pos, new_definition_text), raised |-> FALSE]

\* the node of an accepted candidate linked to the first node of the graph in
\* place of the word being processed
link_new_first(G, w, new_word, new_pos, new_definition_text) ==
  LET G1 == with_node(G, new_word, new_pos, new_definition_text) IN
  add_edge(G1, G1.nodes[1], new_word, 1)

\* the node of an accepted candidate and its edge to the word being processed
link_new(G, w, new_word, new_pos, new_definition_text) ==
  LET G1 == with_node(G, new_word, new_pos, new_definition_text) IN
  IF Truthy(get_node(G1, w)) /\ Truthy(get_node(G1, new_word))
    THEN add_edge(G1, w, new_word, 1)
    ELSE [graph |-> G1, raised |-> FALSE]

\* the first item of the queue read but left in the queue
pop_peek(q) ==
  [item |-> Head(q), queue |-> q]

\* queue.pop(0): the first item and the queue without it
pop(q) ==
  [item |-> Head(q), queue |-> Tail(q)]

\* the test for an already processed word, never true
already_processed_never(w, processed) ==
  FALSE

\* word in self.processed_words
already_processed(w, processed) ==
  w \in processed

\* the branch an iteration of the while loop took for (w, hop)
Iteration(w, hop, branch) ==
  [op |-> "iteration", word |-> w, hop |-> hop, branch |-> branch]

\* one iteration of the while loop, up to the for loop over definition_words
Dequeue ==
  /\ pc = "loop"
  /\ queue # <<>>
  /\ \E popped \in {pop(queue)} :
     \E api_data \in {get_definition(Provider, popped.item[1])} :
     \E relevant \in {IF Truthy(api_data.data)
                        THEN _is_relevant(popped.item[1], api_data.data[1].definition,
                                          api_data.data[1].partOfSpeech, api_data.p)
                        ELSE [verdict |-> FALSE, p |-> api_data.p]} :
     LET w == popped.item[1]
         hop == popped.item[2]
         first_meaning == api_data.data[1]
         skip == /\ UNCHANGED <<cache, files, calls, requests, graph, processed_words, hop_of,
                                pc, word, current_hop, definition_words>>
     IN
     /\ queue' = popped.queue
     /\ IF hop > max_hops
          THEN skip /\ last' = Iteration(w, hop, "hop exceeded")
        ELSE IF already_processed(w, processed_words)
          THEN skip /\ last' = Iteration(w, hop, "already processed")
        ELSE /\ processed_words' = processed_words \cup {w}
             /\ hop_of' = Put(hop_of, w, hop)
             /\ IF ~Truthy(api_data.data)
                  THEN /\ cache' = api_data.p.cache
                       /\ files' = api_data.p.files
                       /\ calls' = api_data.p.calls
                       /\ requests' = api_data.p.requests
                       /\ last' = Iteration(w, hop, "no definition")
                       /\ UNCHANGED <<graph, pc, word, current_hop, definition_words>>
                  ELSE /\ cache' = relevant.p.cache
                       /\ files' = relevant.p.files
                       /\ calls' = relevant.p.calls
                       /\ requests' = relevant.p.requests
                       /\ IF accepted(relevant.verdict, hop)
                            THEN /\ graph' = with_node(graph, w, first_meaning.partOfSpeech,
                                                       first_meaning.definition)
                                 /\ word' = w
                                 /\ current_hop' = hop
                                 /\ definition_words' = _extract_words(first_meaning.definition)
                                 /\ pc' = IF definition_words' = <<>> THEN "loop" ELSE "for"
                                 /\ last' = Iteration(w, hop, "expanded")
                            ELSE /\ last' = Iteration(w, hop, "not relevant")
                                 /\ UNCHANGED <<graph, pc, word, current_hop,
                                                definition_words>>
  /\ UNCHANGED <<initial_definition, context_keywords, max_hops, api>>

\* the test before queue.append, always true
within_hops_always(hop, limit) ==
  TRUE

\* current_hop + 1 <= self.max_hops
within_hops(hop, limit) ==
  hop + 1 <= limit

\* one iteration of the for loop over definition_words
Examine ==
  /\ pc = "for"
  /\ \E new_word \in {Head(definition_words)} :
     \E new_api_data \in {get_definition(Provider, new_word)} :
     \E relevant \in {IF Truthy(new_api_data.data)
                        THEN _is_relevant(new_word, new_api_data.data[1].definition,
                                          new_api_data.data[1].partOfSpeech, new_api_data.p)
                        ELSE [verdict |-> FALSE, p |-> new_api_data.p]} :
     LET new_first_meaning == new_api_data.data[1]
         linked == link_new(graph, word, new_word, new_first_meaning.partOfSpeech,
                            new_first_meaning.definition)
         relinked == link_processed(graph, word, new_word)
         next == IF Tail(definition_words) = <<>> THEN "loop" ELSE "for"
     IN
     /\ definition_words' = Tail(definition_words)
     /\ IF new_word \in processed_words
          THEN /\ graph' = relinked.graph
               /\ pc' = IF relinked.raised THEN "error" ELSE next
               /\ UNCHANGED <<cache, files, calls, requests, queue>>
        ELSE IF ~Truthy(new_api_data.data)
          THEN /\ cache' = new_api_data.p.cache
               /\ files' = new_api_data.p.files
               /\ calls' = new_api_data.p.calls
               /\ requests' = new_api_data.p.requests
               /\ pc' = next
               /\ UNCHANGED <<graph, queue>>
        ELSE /\ cache' = relevant.p.cache
             /\ files' = relevant.p.files
             /\ calls' = relevant.p.calls
             /\ requests' = relevant.p.requests
             /\ IF relevant.verdict
                  THEN /\ graph' = linked.graph
                       /\ IF linked.raised
                            THEN /\ pc' = "error"
                                 /\ UNCHANGED queue
                            ELSE /\ pc' = next
                                 /\ queue' = IF within_hops(current_hop, max_hops)
                                               THEN Append(queue, <<new_word, current_hop + 1>>)
                                               ELSE queue
                  ELSE /\ pc' = next
                       /\ UNCHANGED <<graph, queue>>
  /\ UNCHANGED <<initial_definition, context_keywords, max_hops, api, processed_words, hop_of,
                 word, current_hop, last>>

\* the while loop ends on the empty queue and build_graph returns self.graph
Finish ==
  /\ pc = "loop"
  /\ queue = <<>>
  /\ pc' = "done"
  /\ UNCHANGED <<initial_definition, context_keywords, max_hops, api, cache, files, calls,
                 requests, graph, processed_words, hop_of, queue, word, current_hop,
                 definition_words, last>>

\* the file main() writes the finished graph to
GML_PATH ==
  "output/semantic_graph.gml"

\* the file load_graph() reads the graph from
graphml_path ==
  "output/semantic_graph.graphml"

\* the graph main() exports: every node as str(node), every edge, no attributes
G_simple(G) ==
  [nodes |-> G.nodes, data |-> <<>>, edges |-> G.edges, weight |-> <<>>]

\* nx.write_gml: a file in the GML format
write_gml(fs, G, path) ==
  Put(fs, path, [valid |-> TRUE, body |-> <<"gml", G.nodes, G.edges>>])

\* nx.read_graphml: the graph of a file in the GraphML format, raising otherwise
read_graphml(fs, path) ==
  LET file == fs[path] IN
  IF file.valid /\ file.body[1] = "graphml"
    THEN [raised |-> FALSE,
          graph |-> [nodes |-> file.body[2], data |-> <<>>, edges |-> file.body[3],
                     weight |-> <<>>]]
    ELSE [raised |-> TRUE, graph |-> EmptyGraph]

\* main() after build_graph: the metrics lines divide by num_nodes, then the
\* graph is written with nx.write_gml
Export ==
  /\ pc = "done"
  /\ IF Len(graph.nodes) = 0
       THEN /\ pc' = "crashed"
            /\ UNCHANGED files
       ELSE /\ pc' = "exported"
            /\ files' = write_gml(files, G_simple(graph), GML_PATH)
  /\ UNCHANGED <<initial_definition, context_keywords, max_hops, api, cache, calls,
                 requests, graph, processed_words, hop_of, queue, word, current_hop,
                 definition_words, last>>

\* load_graph() of the search demo, run after main()
Load ==
  /\ pc = "exported"
  /\ pc' = "loaded"
  /\ last' = IF graphml_path \in DOMAIN files
               THEN LET r == read_graphml(files, graphml_path) IN
                    [op |-> "load_graph", exited |-> r.raised, graph |-> r.graph]
               ELSE [op |-> "load_graph", exited |-> TRUE, graph |-> EmptyGraph]
  /\ UNCHANGED <<initial_definition, context_keywords, max_hops, api, cache, files, calls,
                 requests, graph, processed_words, hop_of, queue, word, current_hop,
                 definition_words>>

Next ==
  \/ Start
  \/ Dequeue
  \/ Examine
  \/ Finish
  \/ Export
  \/ Load

Spec ==
  Init /\ [][Next]_vars

\* the answers of a dictionary with a definition that names one word only
ChainResponses ==
  {<<>>} \cup {<<[partOfSpeech |-> "noun", definition |-> d]>> :
                 d \in DefTexts \cup {<<"P", "i", "n", "e">>}}

\* a run from the seed text 'Spine, ox.' over such a dictionary, in which a
\* word can be two definitions away from every seed token
ChainInit ==
  /\ initial_definition = <<"S", "p", "i", "n", "e", ",", " ", "o", "x", ".">>
  /\ context_keywords \in KeywordChoices
  /\ max_hops \in 0..MaxHops
  /\ api \in [Vocabulary -> ChainResponses]
  /\ files = <<>>
  /\ cache = _load_cache(files)
  /\ calls = <<>>
  /\ requests = <<>>
  /\ graph = EmptyGraph
  /\ processed_words = {}
  /\ hop_of = <<>>
  /\ queue = <<>>
  /\ pc = "start"
  /\ word = <<>>
  /\ current_hop = 0
  /\ definition_words = <<>>
  /\ last = NoCall

ChainSpec ==
  ChainInit /\ [][Next]_vars

\* the answers of a dictionary in which every word has a definition
DefinedResponses ==
  {<<[partOfSpeech |-> "noun", definition |-> d]>> : d \in DefTexts}

\* a run over a dictionary whose definitions all refer to words of the dictionary
CyclicInit ==
  /\ Init
  /\ api \in [Vocabulary -> DefinedResponses]

\* the programs run on: a step is taken whenever one can be
FairSpec ==
  CyclicInit /\ [][Next]_vars /\ WF_vars(Next)

(***************************************************************************)
(* Semantic search: SemanticSearcher.                                      *)
(***************************************************************************)

\* self.graph.neighbors(w)
neighbors(G, w) ==
  {v \in Range(G.nodes) : {w, v} \in G.edges}

\* breadth-first search from a frontier at distance d: the distance of target,
\* or -1 for NetworkXNoPath
RECURSIVE bfs_length(_, _, _, _, _)
bfs_length(G, frontier, visited, d, target) ==
  IF target \in frontier
    THEN d
    ELSE LET reached == (UNION {neighbors(G, w) : w \in frontier}) \ visited IN
         IF reached = {}
           THEN -1
           ELSE bfs_length(G, reached, visited \cup reached, d + 1, target)

\* nx.shortest_path_length(self.graph, source, target)
shortest_path_length(G, source, target) ==
  bfs_length(G, {source}, {source}, 0, target)

\* 1.0 / (1.0 + path_length), kept as the fraction <<numerator, denominator>>
similarity_of(path_length) ==
  <<1, 1 + path_length>>

\* x < y on two fractions with positive denominators
FracLess(x, y) ==
  x[1] * y[2] < y[1] * x[2]

\* the (other_word, similarity) entries in the iteration order of the nodes
RECURSIVE similarities_of(_, _, _)
similarities_of(G, w, others) ==
  IF others = <<>>
    THEN <<>>
    ELSE LET other_word == Head(others)
             rest == similarities_of(G, w, Tail(others))
             path_length == shortest_path_length(G, w, other_word)
         IN
         IF other_word = w
           THEN rest
           ELSE IF path_length < 0
                  THEN rest
                  ELSE <<(<<other_word, similarity_of(path_length)>>)>> \o rest

\* entry x put before the entries of the sorted list with the same similarity
RECURSIVE insert_desc_unstable(_, _)
insert_desc_unstable(sorted, x) ==
  IF sorted = <<>>
    THEN <<x>>
    ELSE IF ~FracLess(x[2], Head(sorted)[2])
           THEN <<x>> \o sorted
           ELSE <<Head(sorted)>> \o insert_desc_unstable(Tail(sorted), x)

\* entry x put behind every entry of the sorted list whose similarity is not smaller
RECURSIVE insert_desc(_, _)
insert_desc(sorted, x) ==
  IF sorted = <<>>
    THEN <<x>>
    ELSE IF FracLess(Head(sorted)[2], x[2])
           THEN <<x>> \o sorted
           ELSE <<Head(sorted)>> \o insert_desc(Tail(sorted), x)

\* similarities.sort(key=lambda x: x[1], reverse=True): a stable sort
RECURSIVE sort_desc(_)
sort_desc(s) ==
  IF s = <<>>
    THEN <<>>
    ELSE insert_desc(sort_desc(SubSeq(s, 1, Len(s) - 1)), s[Len(s)])

\* the slice with one entry too many
slice_one_more(s, n) ==
  SubSeq(s, 1, IF n + 1 < Len(s) THEN n + 1 ELSE Len(s))

\* s[:n] for n >= 0
slice(s, n) ==
  SubSeq(s, 1, IF n < Len(s) THEN n ELSE Len(s))

\* SemanticSearcher.find_similar_words
find_similar_words(G, w, top_n) ==
  IF ~has_node(G, w)
    THEN <<>>
    ELSE slice(sort_desc(similarities_of(G, w, G.nodes)), top_n)

(***************************************************************************)
(* The store and the searcher under arbitrary calls.                       *)
(***************************************************************************)

\* largest top_n of a query
MaxTopN == 2

\* the words the calls are made with
StoreWords ==
  {cat, ox, pine}

\* the weights add_edge is called with, 1 being the default 1.0
Weights ==
  {1, 2}

StoreInit ==
  /\ initial_definition = <<>>
  /\ context_keywords = <<>>
  /\ max_hops = 0
  /\ api = <<>>
  /\ cache = <<>>
  /\ files = <<>>
  /\ calls = <<>>
  /\ requests = <<>>
  /\ graph = EmptyGraph
  /\ processed_words = {}
  /\ hop_of = <<>>
  /\ queue = <<>>
  /\ pc = "store"
  /\ word = <<>>
  /\ current_hop = 0
  /\ definition_words = <<>>
  /\ last = NoCall

crawler_vars ==
  <<initial_definition, context_keywords, max_hops, api, cache, files, calls, requests,
    processed_words, hop_of, queue, pc, word, current_hop, definition_words>>

\* graph.add_node(SemanticNode(w, "noun", definition))
AddNode ==
  /\ pc = "store"
  /\ \E w \in StoreWords :
       /\ graph' = add_node(graph, SemanticNode(w, "noun", <<>>))
       /\ last' = [op |-> "add_node", word |-> w]
  /\ UNCHANGED crawler_vars

\* graph.add_edge(word1, word2, weight)
AddEdge ==
  /\ pc = "store"
  /\ \E word1 \in StoreWords, word2 \in StoreWords, weight \in Weights :
       LET r == add_edge(graph, word1, word2, weight) IN
       /\ graph' = r.graph
       /\ last' = [op |-> "add_edge", word1 |-> word1, word2 |-> word2, weight |-> weight,
                   raised |-> r.raised, before |-> graph]
  /\ UNCHANGED crawler_vars

\* SemanticSearcher(graph.graph).find_similar_words(w, top_n)
FindSimilar ==
  /\ pc = "store"
  /\ \E w \in StoreWords, top_n \in 0..MaxTopN :
       last' = [op |-> "find_similar_words", word |-> w, top_n |-> top_n,
                result |-> find_similar_words(graph, w, top_n)]
  /\ UNCHANGED graph
  /\ UNCHANGED crawler_vars

StoreNext ==
  \/ AddNode
  \/ AddEdge
  \/ FindSimilar

StoreSpec ==
  StoreInit /\ [][StoreNext]_vars

(***************************************************************************)
(* Path and neighbourhood queries.  networkx iterates the neighbours of a  *)
(* node in the order its edges were inserted, which the edge set does not  *)
(* keep: the operators below take the order as the argument `order`, a     *)
(* permutation of the nodes, and the actions try every order.              *)
(***************************************************************************)

\* the permutations of a list without repetitions
Perms(s) ==
  {p \in [1..Len(s) -> Range(s)] : \A i, j \in 1..Len(s) : p[i] = p[j] => i = j}

\* the elements of the list s that are in the set S, in the order of s
RECURSIVE Filter(_, _)
Filter(s, S) ==
  IF s = <<>>
    THEN <<>>
    ELSE IF Head(s) \in S
           THEN <<Head(s)>> \o Filter(Tail(s), S)
           ELSE Filter(Tail(s), S)

\* list(self.graph.neighbors(w)) under the iteration order
neighbors_list(G, w, order) ==
  Filter(order, neighbors(G, w))

\* every path of paths with v appended
append_to_each(paths, v) ==
  [i \in 1..Len(paths) |-> Append(paths[i], v)]

\* nx.all_shortest_paths(G, source, v): the shortest paths from source to a
\* reachable v, built from the breadth-first predecessors of v
RECURSIVE paths_from(_, _, _, _)
RECURSIVE paths_through(_, _, _, _, _)
paths_from(G, source, v, order) ==
  IF v = source
    THEN <<(<<source>>)>>
    ELSE LET d == shortest_path_length(G, source, v)
             preds == {p \in neighbors(G, v) : shortest_path_length(G, source, p) = d - 1}
         IN paths_through(G, source, v, order, Filter(order, preds))

\* only the first predecessor followed
paths_through_first(G, source, v, order, preds) ==
  IF preds = <<>>
    THEN <<>>
    ELSE append_to_each(paths_from(G, source, Head(preds), order), v)

\* the shortest paths from source to v that reach v through one of preds
paths_through(G, source, v, order, preds) ==
  IF preds = <<>>
    THEN <<>>
    ELSE append_to_each(paths_from(G, source, Head(preds), order), v)
           \o paths_through(G, source, v, order, Tail(preds))

\* SemanticSearcher.find_connecting_paths
find_connecting_paths(G, word1, word2, max_paths, order) ==
  IF ~has_node(G, word1) \/ ~has_node(G, word2)
    THEN <<>>
    ELSE IF shortest_path_length(G, word1, word2) < 0
           THEN <<>>
           ELSE slice(paths_from(G, word1, word2, order), max_paths)

\* neighborhood[distance].append(current_word) on the defaultdict
record_at(neighborhood, distance, current_word) ==
  Put(neighborhood, distance,
      IF distance \in DOMAIN neighborhood
        THEN Append(neighborhood[distance], current_word)
        ELSE <<current_word>>)

\* the neighbours appended with a distance one too small
entries_at_same(words, distance) ==
  [i \in 1..Len(words) |-> <<words[i], distance - 1>>]

\* the (neighbor, distance + 1) entries the loop over the neighbours appends
entries_at(words, distance) ==
  [i \in 1..Len(words) |-> <<words[i], distance>>]

\* the while loop of get_semantic_neighborhood
RECURSIVE neighborhood_loop(_, _, _, _, _, _)
neighborhood_loop(G, queue_, visited, neighborhood, radius, order) ==
  IF queue_ = <<>>
    THEN neighborhood
    ELSE LET current_word == Head(queue_)[1]
             distance == Head(queue_)[2]
             recorded == IF distance > 0
                           THEN record_at(neighborhood, distance, current_word)
                           ELSE neighborhood
             fresh == Filter(neighbors_list(G, current_word, order),
                             Range(order) \ visited)
         IN
         IF distance < radius
           THEN neighborhood_loop(G, Tail(queue_) \o entries_at(fresh, distance + 1),
                                  visited \cup Range(fresh), recorded, radius, order)
           ELSE neighborhood_loop(G, Tail(queue_), visited, recorded, radius, order)

\* SemanticSearcher.get_semantic_neighborhood without its test of the word: networkx
\* raises on the neighbours of a word that is no node
get_semantic_neighborhood_unguarded(G, w, radius, order) ==
  IF ~has_node(G, w) /\ 0 < radius
    THEN [value |-> <<>>, raised |-> TRUE]
    ELSE [value  |-> neighborhood_loop(G, <<(<<w, 0>>)>>, {w}, <<>>, radius, order),
          raised |-> FALSE]

\* SemanticSearcher.get_semantic_neighborhood: the mapping from distance to words,
\* and whether an exception leaves the call
get_semantic_neighborhood(G, w, radius, order) ==
  IF ~has_node(G, w)
    THEN [value |-> <<>>, raised |-> FALSE]
    ELSE [value  |-> neighborhood_loop(G, <<(<<w, 0>>)>>, {w}, <<>>, radius, order),
          raised |-> FALSE]

\* SemanticGraph.find_path: <<>> stands for None, <<path>> for a path, and raised
\* tells that nx.NodeNotFound, which find_path does not catch, leaves the call
find_path(G, word1, word2, order) ==
  IF ~has_node(G, word1) \/ ~has_node(G, word2)
    THEN [path |-> <<>>, raised |-> TRUE]
    ELSE IF shortest_path_length(G, word1, word2) < 0
           THEN [path |-> <<>>, raised |-> FALSE]
           ELSE [path |-> <<paths_from(G, word1, word2, order)[1]>>, raised |-> FALSE]

\* SemanticGraph.get_neighbors
get_neighbors(G, w, order) ==
  IF has_node(G, w) THEN neighbors_list(G, w, order) ELSE <<>>

(***************************************************************************)
(* One query on a finished graph.                                          *)
(***************************************************************************)

\* largest max_paths of a query
MaxPaths == 2

\* largest radius of a query
MaxRadius == 2

\* the words of the queries
SearchWords ==
  {cat, ox, pine, spine}

\* the insertion orders of the nodes of the graphs that are queried
NodeOrders ==
  { <<>>, <<cat>>, <<ox, cat, pine>>, <<cat, ox, pine, spine>>, <<spine, pine, ox, cat>>,
    <<pine, cat, spine, ox>> }

\* the edges a graph on these nodes may have: any pair of distinct nodes, and a
\* self-loop on the first node
PossibleEdges(nodes) ==
  {{nodes[i], nodes[j]} : i \in 1..Len(nodes), j \in 1..Len(nodes)}
    \ {{nodes[i]} : i \in 2..Len(nodes)}

\* the graph that add_node for each of nodes and add_edge for each of edges build
BuiltGraph(nodes, edges) ==
  [nodes  |-> nodes,
   data   |-> [w \in Range(nodes) |-> SemanticNode(w, "noun", <<>>)],
   edges  |-> edges,
   weight |-> [e \in edges |-> 1]]

\* everything but graph, pc and last
fixed_vars ==
  <<initial_definition, context_keywords, max_hops, api, cache, files, calls, requests,
    processed_words, hop_of, queue, word, current_hop, definition_words>>

SearchInit ==
  /\ initial_definition = <<>>
  /\ context_keywords = <<>>
  /\ max_hops = 0
  /\ api = <<>>
  /\ cache = <<>>
  /\ files = <<>>
  /\ calls = <<>>
  /\ requests = <<>>
  /\ \E nodes \in NodeOrders : \E edges \in SUBSET PossibleEdges(nodes) :
       graph = BuiltGraph(nodes, edges)
  /\ processed_words = {}
  /\ hop_of = <<>>
  /\ queue = <<>>
  /\ pc = "search"
  /\ word = <<>>
  /\ current_hop = 0
  /\ definition_words = <<>>
  /\ last = NoCall

\* SemanticSearcher(graph.graph).find_similar_words(w, top_n)
SimilarWords ==
  /\ pc = "search"
  /\ \E w \in SearchWords, top_n \in 0..MaxTopN :
       last' = [op |-> "find_similar_words", word |-> w, top_n |-> top_n,
                result |-> find_similar_words(graph, w, top_n)]
  /\ pc' = "answered"
  /\ UNCHANGED <<graph, fixed_vars>>

\* SemanticSearcher(graph.graph).find_connecting_paths(word1, word2, max_paths)
ConnectingPaths ==
  /\ pc = "search"
  /\ \E word1 \in SearchWords, word2 \in SearchWords, max_paths \in 0..MaxPaths :
       \E order \in Perms(graph.nodes) :
         last' = [op |-> "find_connecting_paths", word1 |-> word1, word2 |-> word2,
                  max_paths |-> max_paths,
                  result |-> find_connecting_paths(graph, word1, word2, max_paths, order)]
  /\ pc' = "answered"
  /\ UNCHANGED <<graph, fixed_vars>>

\* SemanticSearcher(graph.graph).get_semantic_neighborhood(w, radius)
Neighborhood ==
  /\ pc = "search"
  /\ \E w \in SearchWords, radius \in 0..MaxRadius :
       \E order \in Perms(graph.nodes) :
         LET r == get_semantic_neighborhood(graph, w, radius, order) IN
         last' = [op |-> "get_semantic_neighborhood", word |-> w, radius |-> radius,
                  result |-> r.value, raised |-> r.raised]
  /\ pc' = "answered"
  /\ UNCHANGED <<graph, fixed_vars>>

\* graph.get_node(w)
GetNode ==
  /\ pc = "search"
  /\ \E w \in SearchWords :
       last' = [op |-> "get_node", word |-> w, result |-> get_node(graph, w)]
  /\ pc' = "answered"
  /\ UNCHANGED <<graph, fixed_vars>>

\* graph.get_neighbors(w)
GetNeighbors ==
  /\ pc = "search"
  /\ \E w \in SearchWords :
       \E order \in Perms(graph.nodes) :
         last' = [op |-> "get_neighbors", word |-> w,
                  result |-> get_neighbors(graph, w, order)]
  /\ pc' = "answered"
  /\ UNCHANGED <<graph, fixed_vars>>

\* graph.find_path(word1, word2)
FindPath ==
  /\ pc = "search"
  /\ \E word1 \in SearchWords, word2 \in SearchWords :
       \E order \in Perms(graph.nodes) :
         LET r == find_path(graph, word1, word2, order) IN
         last' = [op |-> "find_path", word1 |-> word1, word2 |-> word2,
                  result |-> r.path, raised |-> r.raised]
  /\ pc' = "answered"
  /\ UNCHANGED <<graph, fixed_vars>>

SearchNext ==
  \/ SimilarWords
  \/ ConnectingPaths
  \/ Neighborhood
  \/ GetNode
  \/ GetNeighbors
  \/ FindPath

SearchSpec ==
  SearchInit /\ [][SearchNext]_vars

(***************************************************************************)
(* Definition provider on its own: get_definition calls over several runs  *)
(* of the program that share the cache file, against a service whose       *)
(* answers change.                                                         *)
(***************************************************************************)

\* the calls for one word a behaviour holds
MaxCalls == 2

\* the runs of the program a behaviour holds
MaxRuns == 2

\* the words looked up
ProviderWords ==
  { cat, ox }

\* the answers of the service for one word
ProviderResponses ==
  { <<>>,
    <<[partOfSpeech |-> "noun",
       definition |-> <<"A", " ", "p", "i", "n", "e", " ", "c", "a", "t">>]>>,
    <<[partOfSpeech |-> "adverb",
       definition |-> <<"O", "x", " ", "o", "f", " ", "t", "h", "e", " ", "S", "p", "i", "n", "e">>]>> }

\* a cache file json.load cannot decode
CorruptCacheFile ==
  [f \in {CACHE_FILE} |-> [valid |-> FALSE, body |-> <<>>]]

provider_fixed ==
  <<initial_definition, context_keywords, max_hops, graph, processed_words, hop_of, queue,
    pc, word, current_hop, definition_words>>

\* FreeDictionaryClient(): no cache file on disk, or one that cannot be decoded
ProviderInit ==
  /\ initial_definition = <<>>
  /\ context_keywords = <<>>
  /\ max_hops = 0
  /\ api \in [ProviderWords -> ProviderResponses]
  /\ files \in {<<>>, CorruptCacheFile}
  /\ cache = _load_cache(files)
  /\ calls = <<>>
  /\ requests = <<>>
  /\ graph = EmptyGraph
  /\ processed_words = {}
  /\ hop_of = <<>>
  /\ queue = <<>>
  /\ pc = "provider"
  /\ word = <<>>
  /\ current_hop = 0
  /\ definition_words = <<>>
  /\ last = [op |-> "__init__", run |-> 1]

\* client.get_definition(w)
GetDefinition ==
  /\ pc = "provider"
  /\ \E w \in ProviderWords :
       /\ (w \in DOMAIN calls => calls[w] < MaxCalls)
       /\ LET r == get_definition(Provider, w) IN
          /\ cache' = r.p.cache
          /\ files' = r.p.files
          /\ calls' = r.p.calls
          /\ requests' = r.p.requests
          /\ last' = [op |-> "get_definition", word |-> w, result |-> r.data,
                      run |-> last.run]
  /\ UNCHANGED <<api, provider_fixed>>

\* the dictionary service changes its answer for one word
ServiceChange ==
  /\ pc = "provider"
  /\ \E w \in ProviderWords, r \in ProviderResponses :
       /\ r # api[w]
       /\ api' = [api EXCEPT ![w] = r]
  /\ UNCHANGED <<cache, files, calls, requests, last, provider_fixed>>

\* the program ends and is started again: FreeDictionaryClient.__init__
Restart ==
  /\ pc = "provider"
  /\ last.run < MaxRuns
  /\ cache' = _load_cache(files)
  /\ last' = [op |-> "__init__", run |-> last.run + 1]
  /\ UNCHANGED <<api, files, calls, requests, provider_fixed>>

ProviderNext ==
  \/ GetDefinition
  \/ ServiceChange
  \/ Restart

ProviderSpec ==
  ProviderInit /\ [][ProviderNext]_vars

(***************************************************************************)
(* Relevance classifier on its own: one _is_relevant call of a parser.     *)
(***************************************************************************)

\* the context keywords of the parser, in iteration order
ClassifierKeywords ==
  { <<pine>>, <<cat, ox>>, <<spine>>, <<pine, spine>>, <<spine, pine>> }

\* the definition texts a candidate is classified with
ClassifierDefTexts ==
  DefTexts \cup { <<"O", "x">> }

\* Phase1_Parser(initial_definition, context_keywords), a fresh provider
ClassifierInit ==
  /\ initial_definition \in SeedTexts
  /\ context_keywords \in ClassifierKeywords
  /\ max_hops = 0
  /\ api \in [{pine, spine} -> ProviderResponses]
  /\ files = <<>>
  /\ cache = _load_cache(files)
  /\ calls = <<>>
  /\ requests = <<>>
  /\ graph = EmptyGraph
  /\ processed_words = {}
  /\ hop_of = <<>>
  /\ queue = <<>>
  /\ pc = "classifier"
  /\ word = <<>>
  /\ current_hop = 0
  /\ definition_words = <<>>
  /\ last = NoCall

\* parser._is_relevant(w, definition_text, pos)
Classify ==
  /\ pc = "classifier"
  /\ \E w \in Vocabulary, definition_text \in ClassifierDefTexts, pos \in PosTags :
       LET r == _is_relevant(w, definition_text, pos, Provider) IN
       /\ cache' = r.p.cache
       /\ files' = r.p.files
       /\ calls' = r.p.calls
       /\ requests' = r.p.requests
       /\ last' = [op |-> "_is_relevant", word |-> w, definition_text |-> definition_text,
                   pos |-> pos, result |-> r.verdict]
  /\ pc' = "classified"
  /\ UNCHANGED <<initial_definition, context_keywords, max_hops, api, graph, processed_words,
                 hop_of, queue, word, current_hop, definition_words>>

ClassifierNext ==
  Classify

ClassifierSpec ==
  ClassifierInit /\ [][ClassifierNext]_vars

(***************************************************************************)
(* Validation: calculate_semantic_similarity.  A score is kept in tenths,  *)
(* 75 standing for 7.5.                                                    *)
(***************************************************************************)

\* the pairs of words that get the boost
special_pairs ==
  { <<<<"b", "e", "d">>,
      <<"s", "l", "e", "e", "p">>>>,
    <<<<"s", "l", "e", "e", "p">>,
      <<"b", "e", "d">>>>,
    <<<<"c", "o", "m", "f", "o", "r", "t">>,
      <<"s", "a", "t", "i", "s", "f", "a", "c", "t", "i", "o", "n">>>>,
    <<<<"s", "a", "t", "i", "s", "f", "a", "c", "t", "i", "o", "n">>,
      <<"c", "o", "m", "f", "o", "r", "t">>>>,
    <<<<"k", "i", "n", "g">>,
      <<"q", "u", "e", "e", "n">>>>,
    <<<<"q", "u", "e", "e", "n">>,
      <<"k", "i", "n", "g">>>>,
    <<<<"c", "o", "m", "p", "u", "t", "e", "r">>,
      <<"k", "e", "y", "b", "o", "a", "r", "d">>>>,
    <<<<"k", "e", "y", "b", "o", "a", "r", "d">>,
      <<"c", "o", "m", "p", "u", "t", "e", "r">>>>,
    <<<<"m", "o", "n", "e", "y">>,
      <<"c", "a", "s", "h">>>>,
    <<<<"c", "a", "s", "h">>,
      <<"m", "o", "n", "e", "y">>>>,
    <<<<"c", "a", "r">>,
      <<"t", "r", "a", "i", "n">>>>,
    <<<<"t", "r", "a", "i", "n">>,
      <<"c", "a", "r">>>>,
    <<<<"f", "o", "o", "t", "b", "a", "l", "l">>,
      <<"b", "a", "s", "k", "e", "t", "b", "a", "l", "l">>>>,
    <<<<"b", "a", "s", "k", "e", "t", "b", "a", "l", "l">>,
      <<"f", "o", "o", "t", "b", "a", "l", "l">>>>,
    <<<<"e", "a", "t">>,
      <<"d", "r", "i", "n", "k">>>>,
    <<<<"d", "r", "i", "n", "k">>,
      <<"e", "a", "t">>>> }

\* base_score + 2.0 left as it is
boost_none(base_score) ==
  base_score

\* min(10.0, base_score + 2.0)
boost(base_score) ==
  IF base_score + 20 > 100 THEN 100 ELSE base_score + 20

\* validate.calculate_semantic_similarity
calculate_semantic_similarity(G, word1, word2) ==
  IF word1 = word2
    THEN 100
  ELSE IF ~has_node(G, word1) \/ ~has_node(G, word2)
    THEN 0
  ELSE LET path_length == shortest_path_length(G, word1, word2) IN
       IF path_length = -1
         THEN 0
       ELSE IF path_length \in 1..4
         THEN LET base_score == CASE path_length = 1 -> 75
                                  [] path_length = 2 -> 60
                                  [] path_length = 3 -> 45
                                  [] path_length = 4 -> 30
              IN
              IF <<word1, word2>> \in special_pairs THEN boost(base_score) ELSE base_score
       ELSE 10

bed == <<"b", "e", "d">>
king == <<"k", "i", "n", "g">>
car == <<"c", "a", "r">>
train == <<"t", "r", "a", "i", "n">>
queen == <<"q", "u", "e", "e", "n">>
sleep == <<"s", "l", "e", "e", "p">>
drink == <<"d", "r", "i", "n", "k">>

\* the nodes of the validated graphs, in insertion order
ValidationNodes ==
  <<bed, king, car, train, queen, sleep>>

\* the edges a validated graph may have: the chain of the nodes and two chords
ValidationEdges ==
  {{ValidationNodes[i], ValidationNodes[i + 1]} : i \in 1..(Len(ValidationNodes) - 1)}
    \cup {{king, sleep}, {train, sleep}}

\* the words a pair is drawn from: the nodes and a word that is no node
ValidationWords ==
  Range(ValidationNodes) \cup {drink}

ValidationInit ==
  /\ initial_definition = <<>>
  /\ context_keywords = <<>>
  /\ max_hops = 0
  /\ api = <<>>
  /\ cache = <<>>
  /\ files = <<>>
  /\ calls = <<>>
  /\ requests = <<>>
  /\ \E edges \in SUBSET ValidationEdges : graph = BuiltGraph(ValidationNodes, edges)
  /\ processed_words = {}
  /\ hop_of = <<>>
  /\ queue = <<>>
  /\ pc = "validate"
  /\ word = <<>>
  /\ current_hop = 0
  /\ definition_words = <<>>
  /\ last = NoCall

\* calculate_semantic_similarity(graph, word1, word2)
Validate ==
  /\ pc = "validate"
  /\ \E word1 \in ValidationWords, word2 \in ValidationWords :
       last' = [op |-> "calculate_semantic_similarity", word1 |-> word1, word2 |-> word2,
                result |-> calculate_semantic_similarity(graph, word1, word2)]
  /\ pc' = "validated"
  /\ UNCHANGED <<graph, fixed_vars>>

ValidationNext ==
  Validate

ValidationSpec ==
  ValidationInit /\ [][ValidationNext]_vars

(***************************************************************************)
(* Properties.                                                             *)
(***************************************************************************)

Admissible ==
  {"noun", "verb", "adjective"}

\* the words of the seed definition
SeedWords ==
  Range(initial_words)

\* the dictionary service has a definition for w
Defined(w) ==
  Truthy(api[w])

\* the normalized tokens of the definition of w
DefTokens(w) ==
  IF Defined(w) THEN Range(_extract_words(api[w][1].definition)) ELSE {}

\* the position of the first occurrence of x in s
FirstIndex(s, x) ==
  CHOOSE i \in 1..Len(s) : s[i] = x /\ \A j \in 1..(i - 1) : s[j] # x

\* there is a path from a to b along the edges of G
Connected(G, a, b) ==
  \E k \in 1..Len(G.nodes) :
    \E p \in [1..k -> Range(G.nodes)] :
      /\ p[1] = a
      /\ p[k] = b
      /\ \A i \in 1..(k - 1) : {p[i], p[i + 1]} \in G.edges

\* C1: in every state of a construction run, both endpoints of every edge have a
\* node in the graph store.
C1_EdgesHaveNodes ==
  \A e \in graph.edges : e \subseteq NodeWords(graph)

\* a finished run whose graph has at least two edges
C1_Witness ==
  pc = "done" /\ Cardinality(graph.edges) >= 2

\* C2: the graph never contains a self-loop, i.e. every edge joins two distinct
\* words.
C2_NoSelfLoop ==
  \A e \in graph.edges : Cardinality(e) = 2

\* C3: during a construction run get_definition is called at most once for any
\* given word, whichever of the main loop, the candidate loop and the classifier
\* makes the call.
C3_OneLookupPerWord ==
  \A w \in DOMAIN calls : calls[w] <= 1

\* C4: when construction has finished, every seed token that the provider
\* defines was processed at hop 0 and has a node, whatever its part of speech,
\* its length and its relation to the context keywords.
C4_SeedsGetNodes ==
  pc = "done" =>
    \A w \in SeedWords :
      Defined(w) => /\ w \in DOMAIN hop_of
                    /\ hop_of[w] = 0
                    /\ w \in NodeWords(graph)

\* a finished run with a two-letter adverb among the seed tokens that is no
\* context keyword and has a node
C4_Witness ==
  /\ pc = "done"
  /\ \E w \in SeedWords :
       /\ Defined(w)
       /\ Len(w) <= 2
       /\ api[w][1].partOfSpeech \notin Admissible
       /\ w \notin Range(context_keywords)
       /\ w \in NodeWords(graph)

\* C5 as stated: when construction has finished, for distinct defined seed tokens
\* a and b with b a token of the definition of a, the edge (a, b) is in the
\* graph, whatever the order of a and b in the seed queue.
C5_SeedEdgeAnyOrder ==
  pc = "done" =>
    \A a \in SeedWords, b \in SeedWords :
      (a # b /\ Defined(a) /\ Defined(b) /\ b \in DefTokens(a))
        => {a, b} \in graph.edges

\* C5 as amended: for distinct defined seed tokens a and b with b a token of the
\* definition of a, the finished graph has the edge (a, b) exactly when the
\* part of speech of b is noun, verb or adjective, or b comes before a in the
\* seed queue, or a is a token of the definition of b.
C5_SeedEdge ==
  pc = "done" =>
    \A a \in SeedWords, b \in SeedWords :
      (a # b /\ Defined(a) /\ Defined(b) /\ b \in DefTokens(a))
        => ({a, b} \in graph.edges
              <=> \/ api[b][1].partOfSpeech \in Admissible
                  \/ FirstIndex(initial_words, b) < FirstIndex(initial_words, a)
                  \/ a \in DefTokens(b))

\* a finished run where b is an adverb that comes before a in the seed queue, a
\* is no token of the definition of b, and the edge (a, b) is there
C5_Witness ==
  /\ pc = "done"
  /\ \E a \in SeedWords, b \in SeedWords :
       /\ a # b /\ Defined(a) /\ Defined(b) /\ b \in DefTokens(a)
       /\ api[b][1].partOfSpeech \notin Admissible
       /\ FirstIndex(initial_words, b) < FirstIndex(initial_words, a)
       /\ a \notin DefTokens(b)
       /\ {a, b} \in graph.edges

\* C6: in every state of a construction run, no word with a node is a stop
\* word, and every word with a node is longer than two characters unless it is
\* a seed token.
C6_NodesNotShortNotStop ==
  \A w \in NodeWords(graph) :
    /\ w \notin stop_words
    /\ Len(w) > 2 \/ w \in SeedWords

\* a finished run that gave a node to a word outside the seed, and looked up and
\* refused a two-letter noun outside the seed that is a context keyword
C6_Witness ==
  /\ pc = "done"
  /\ \E w \in NodeWords(graph) : w \notin SeedWords
  /\ \E w \in DOMAIN calls :
       /\ Len(w) <= 2
       /\ w \notin SeedWords
       /\ Defined(w)
       /\ api[w][1].partOfSpeech \in Admissible
       /\ w \in Range(context_keywords)
       /\ w \notin NodeWords(graph)

\* C7: the classifier rejects every word whose part of speech is not noun, verb
\* or adjective, whatever the keywords, and in every state of a construction
\* run every node outside the seed has one of these three parts of speech.
C7_NonSeedNodesAdmissible ==
  /\ \A w \in Vocabulary, d \in DefTexts, t \in PosTags \ Admissible :
       ~_is_relevant(w, d, t, Provider).verdict
  /\ \A w \in NodeWords(graph) :
       w \notin SeedWords => graph.data[w].pos \in Admissible

\* a finished run that looked up an adverb outside the seed that is a context
\* keyword and gave it no node, while another word outside the seed has one
C7_Witness ==
  /\ pc = "done"
  /\ \E w \in NodeWords(graph) : w \notin SeedWords
  /\ \E w \in DOMAIN calls :
       /\ w \notin SeedWords
       /\ Defined(w)
       /\ api[w][1].partOfSpeech \notin Admissible
       /\ w \in Range(context_keywords)
       /\ w \notin NodeWords(graph)

\* C8: add_edge raises exactly when one of its endpoints has no node, and then
\* leaves the graph as it was.
C8_AddEdgeNeedsNodes ==
  last.op = "add_edge" =>
    /\ last.raised <=> ~(/\ last.word1 \in NodeWords(last.before)
                         /\ last.word2 \in NodeWords(last.before))
    /\ last.raised => graph = last.before

\* add_edge has raised on a pair with one endpoint present and the other missing
C8_Witness ==
  /\ last.op = "add_edge"
  /\ last.raised
  /\ last.word1 \in NodeWords(last.before)
  /\ last.word2 \notin NodeWords(last.before)

\* C9: add_edge on a pair that already has an edge raises nothing and leaves
\* the edge set and the stored weights as they were, whatever the weight
\* argument.
C9_ReAddIsNoOp ==
  (last.op = "add_edge" /\ {last.word1, last.word2} \in last.before.edges) =>
    /\ ~last.raised
    /\ graph.edges = last.before.edges
    /\ graph.weight = last.before.weight

\* C10: find_similar_words(w, n) returns at most n entries, never w itself and
\* never a word with no path to w.
C10_SimilarBounded ==
  last.op = "find_similar_words" =>
    /\ Len(last.result) <= last.top_n
    /\ \A i \in 1..Len(last.result) :
         /\ last.result[i][1] # last.word
         /\ Connected(graph, last.word, last.result[i][1])

\* a query with n >= 1 on a graph where more than n words are connected to w
\* and some word is not
C10_Witness ==
  /\ last.op = "find_similar_words"
  /\ last.top_n >= 1
  /\ Len(last.result) = last.top_n
  /\ Cardinality({v \in Range(graph.nodes) \ {last.word} :
                    Connected(graph, last.word, v)}) > last.top_n

\* the paths from a to b with k edges
PathsOfLength(G, a, b, k) ==
  {p \in [1..(k + 1) -> Range(G.nodes)] :
     /\ p[1] = a
     /\ p[k + 1] = b
     /\ \A i \in 1..k : {p[i], p[i + 1]} \in G.edges}

\* the number of edges of a shortest path from a to b, -1 when there is none
Dist(G, a, b) ==
  IF \E k \in 0..(Len(G.nodes) - 1) : PathsOfLength(G, a, b, k) # {}
    THEN CHOOSE k \in 0..(Len(G.nodes) - 1) :
           /\ PathsOfLength(G, a, b, k) # {}
           /\ \A j \in 0..(k - 1) : PathsOfLength(G, a, b, j) = {}
    ELSE -1

\* the nodes other than w that a path joins to w
Reachable(G, w) ==
  {v \in Range(G.nodes) \ {w} : Dist(G, w, v) >= 0}

\* u is nearer to w than v, or as near and inserted earlier
Ranked(G, w, u, v) ==
  \/ Dist(G, w, u) < Dist(G, w, v)
  \/ Dist(G, w, u) = Dist(G, w, v) /\ FirstIndex(G.nodes, u) < FirstIndex(G.nodes, v)

\* the smaller of two numbers
Min(a, b) ==
  IF a < b THEN a ELSE b

\* C11: find_similar_words(w, n) gives every word it returns the similarity
\* 1/(1+d), d being its shortest-path distance from w, and returns the first
\* min(n, number of reachable words) words of the reachable words ordered by
\* distance, words at the same distance in insertion order.
C11_SimilarRanked ==
  (pc = "answered" /\ last.op = "find_similar_words") =>
    LET r == last.result
        w == last.word
        returned == {r[i][1] : i \in 1..Len(r)}
    IN
    /\ Len(r) = Min(last.top_n, Cardinality(Reachable(graph, w)))
    /\ returned \subseteq Reachable(graph, w)
    /\ \A i \in 1..Len(r) : r[i][2] = <<1, 1 + Dist(graph, w, r[i][1])>>
    /\ \A i, j \in 1..Len(r) : i < j => Ranked(graph, w, r[i][1], r[j][1])
    /\ \A u \in returned, v \in Reachable(graph, w) \ returned : Ranked(graph, w, u, v)

\* a query for two words on a graph with three reachable words where the second
\* word returned is as far from w as the word left out
C11_Witness ==
  /\ pc = "answered"
  /\ last.op = "find_similar_words"
  /\ last.top_n = 2
  /\ Len(last.result) = 2
  /\ Cardinality(Reachable(graph, last.word)) = 3
  /\ Dist(graph, last.word, last.result[1][1]) < Dist(graph, last.word, last.result[2][1])
  /\ \E v \in Reachable(graph, last.word) :
       /\ v # last.result[2][1]
       /\ Dist(graph, last.word, v) = Dist(graph, last.word, last.result[2][1])

\* the shortest paths from a to b
ShortestPaths(G, a, b) ==
  IF Dist(G, a, b) >= 0 THEN PathsOfLength(G, a, b, Dist(G, a, b)) ELSE {}

\* C12: find_connecting_paths(w1, w2, max_paths) returns min(max_paths, k)
\* pairwise distinct paths, k being the number of shortest paths from w1 to w2,
\* each of them a shortest path from w1 to w2 along edges of the graph; the
\* result is empty when an endpoint is no node or no path exists.
C12_ConnectingPaths ==
  (pc = "answered" /\ last.op = "find_connecting_paths") =>
    LET r == last.result
        shortest == ShortestPaths(graph, last.word1, last.word2)
    IN
    /\ Len(r) = Min(last.max_paths, Cardinality(shortest))
    /\ \A i \in 1..Len(r) : r[i] \in shortest
    /\ \A i, j \in 1..Len(r) : r[i] = r[j] => i = j

\* a query for one path between two words that two shortest paths of two edges join
C12_Witness ==
  /\ pc = "answered"
  /\ last.op = "find_connecting_paths"
  /\ last.max_paths = 1
  /\ Cardinality(ShortestPaths(graph, last.word1, last.word2)) = 2
  /\ Len(last.result) = 1
  /\ Len(last.result[1]) = 3

\* the words recorded under the key d of a neighbourhood
WordsAt(r, d) ==
  IF d \in DOMAIN r THEN Range(r[d]) ELSE {}

\* C13: get_semantic_neighborhood(w, r) has keys in 1..r only, and for each d
\* in 1..r the words under the key d, each recorded once, are exactly the words
\* at shortest-path distance d from w; so no word farther than r and never w.
C13_NeighborhoodByDistance ==
  (pc = "answered" /\ last.op = "get_semantic_neighborhood") =>
    LET r == last.result IN
    /\ DOMAIN r \subseteq 1..last.radius
    /\ \A d \in DOMAIN r :
         /\ r[d] # <<>>
         /\ \A i, j \in 1..Len(r[d]) : r[d][i] = r[d][j] => i = j
    /\ \A d \in 1..last.radius :
         WordsAt(r, d) = {v \in Range(graph.nodes) : Dist(graph, last.word, v) = d}

\* a query of radius 2 for a word with a self-loop, a word at distance 2 and a
\* word at distance 3
C13_Witness ==
  /\ pc = "answered"
  /\ last.op = "get_semantic_neighborhood"
  /\ last.radius = 2
  /\ {last.word} \in graph.edges
  /\ 2 \in DOMAIN last.result
  /\ \E v \in Range(graph.nodes) : Dist(graph, last.word, v) = 3

\* C14: for a word that is no node of the graph, find_similar_words,
\* find_connecting_paths (the word being either endpoint) and
\* get_semantic_neighborhood return an empty result and raise nothing.
C14_AbsentWordEmpty ==
  pc = "answered" =>
    /\ (last.op = "find_similar_words" /\ ~has_node(graph, last.word))
         => last.result = <<>>
    /\ (last.op = "find_connecting_paths"
           /\ (~has_node(graph, last.word1) \/ ~has_node(graph, last.word2)))
         => last.result = <<>>
    /\ (last.op = "get_semantic_neighborhood" /\ ~has_node(graph, last.word))
         => (last.result = <<>> /\ ~last.raised)

\* a neighbourhood query of radius 1 or more for a word that is no node of a
\* graph that has nodes
C14_Witness ==
  /\ pc = "answered"
  /\ last.op = "get_semantic_neighborhood"
  /\ last.radius >= 1
  /\ graph.nodes # <<>>
  /\ ~has_node(graph, last.word)
  /\ last.result = <<>>

\* C15: the store's queries raise nothing on a missing word: get_node gives
\* None, get_neighbors gives the empty list, and find_path gives None when no
\* path exists or an endpoint is no node, and a shortest path otherwise.
C15_StoreQueriesTotal ==
  pc = "answered" =>
    /\ (last.op = "get_node" /\ ~has_node(graph, last.word)) => last.result = <<>>
    /\ (last.op = "get_neighbors" /\ ~has_node(graph, last.word)) => last.result = <<>>
    /\ last.op = "find_path" =>
         /\ ~last.raised
         /\ IF ShortestPaths(graph, last.word1, last.word2) = {}
              THEN last.result = <<>>
              ELSE /\ Len(last.result) = 1
                   /\ last.result[1] \in ShortestPaths(graph, last.word1, last.word2)

\* C16: the graph that load_graph() returns after main() exported the finished
\* graph has the node set and the edge set of the exported graph.
C16_ExportLoadRoundTrip ==
  pc = "loaded" =>
    /\ ~last.exited
    /\ Range(last.graph.nodes) = Range(graph.nodes)
    /\ last.graph.edges = graph.edges

\* C17: over get_definition calls within a run and across runs that share the
\* cache file, no word is requested from the service more than once: a call for
\* a word not yet cached makes the one request and stores its outcome, data or
\* failure, in the cache; the stored outcome is in the cache file and is never
\* replaced; a call for a cached word returns the stored outcome and makes no
\* request.
C17_OneRequestPerWord ==
  [][ /\ \A w \in DOMAIN requests' : requests'[w] <= 1
      /\ \A w \in DOMAIN cache : w \in DOMAIN cache' /\ cache'[w] = cache[w]
      /\ \A w \in DOMAIN cache' :
           /\ w \in DOMAIN _load_cache(files')
           /\ _load_cache(files')[w] = cache'[w]
      /\ calls' # calls =>
           LET w == last'.word IN
           IF w \in DOMAIN cache
             THEN requests' = requests /\ last'.result = cache[w]
             ELSE requests'[w] = 1 /\ cache'[w] = last'.result
    ]_vars

\* in the second run, a second call for a word whose one request failed in the
\* first run returns the stored failure although the service would now answer
C17_Witness ==
  /\ pc = "provider"
  /\ last.op = "get_definition"
  /\ last.run = 2
  /\ calls[last.word] = 2
  /\ requests[last.word] = 1
  /\ api[last.word] # <<>>
  /\ last.result = <<>>

\* C18: _is_relevant(word, definition_text, pos) is False when the word has at
\* most 2 characters and is no seed token (step 1) or the part of speech is not
\* noun, verb or adjective (step 2); otherwise it is True exactly when one of
\* steps 3 to 8 holds: the word is a keyword; a keyword longer than 3 contains
\* the word or is contained in it; a definition token is a keyword; a keyword
\* longer than 3 and a definition token longer than 3 contain one another; the
\* word is a seed token; the word occurs in the lowercased first definition of
\* a keyword longer than 3 whose lookup did not fail.
C18_RelevancePolicy ==
  pc = "classified" =>
    LET w == last.word
        keywords == Range(context_keywords)
        seed == Range(_extract_words(initial_definition))
        tokens == Range(_extract_words(last.definition_text))
        step1 == Len(w) <= 2 /\ w \notin seed
        step2 == last.pos \notin {"noun", "verb", "adjective"}
        step3 == w \in keywords
        step4 == \E k \in keywords :
                   Len(k) > 3 /\ (IsSubstring(k, w) \/ IsSubstring(w, k))
        step5 == tokens \cap keywords # {}
        step6 == \E k \in keywords, t \in tokens :
                   /\ Len(k) > 3
                   /\ Len(t) > 3
                   /\ (IsSubstring(k, t) \/ IsSubstring(t, k))
        step7 == w \in seed
        step8 == \E k \in keywords :
                   /\ Len(k) > 3
                   /\ api[k] # <<>>
                   /\ IsSubstring(w, Lower(api[k][1].definition))
    IN
    last.result =
      (~step1 /\ ~step2 /\ (step3 \/ step4 \/ step5 \/ step6 \/ step7 \/ step8))

\* a word accepted by step 8 alone, through the second keyword after the lookup
\* of the first keyword failed
C18_Witness ==
  /\ pc = "classified"
  /\ last.result
  /\ last.word = cat
  /\ last.definition_text = <<"O", "x">>
  /\ cat \notin Range(_extract_words(initial_definition))
  /\ context_keywords = <<pine, spine>>
  /\ api[pine] = <<>>
  /\ requests[spine] = 1

\* C19: for every seed text, dictionary and max_hops of the model, build_graph
\* eventually leaves its while loop with the queue empty and returns.
C19_Terminates ==
  <>(pc = "done" /\ queue = <<>>)

\* a finished run with max_hops 1 over definitions that refer to each other:
\* 'cat' and 'pine' are both defined as 'A pine cat', both were processed and
\* they are linked
C19_Witness ==
  /\ pc = "done"
  /\ queue = <<>>
  /\ max_hops = 1
  /\ {cat, pine} \subseteq processed_words
  /\ Truthy(api[cat]) /\ cat \in Range(_extract_words(api[cat][1].definition))
  /\ Truthy(api[cat]) /\ pine \in Range(_extract_words(api[cat][1].definition))
  /\ Truthy(api[pine]) /\ cat \in Range(_extract_words(api[pine][1].definition))
  /\ {cat, pine} \in graph.edges

\* the nodes that at most k edges join to a
RECURSIVE Ball(_, _, _)
Ball(G, a, k) ==
  IF k = 0
    THEN {a}
    ELSE LET B == Ball(G, a, k - 1) IN
         B \cup {v \in Range(G.nodes) : \E u \in B : {u, v} \in G.edges}

\* the least number of edges that join a to b, -1 when nothing joins them
Hops(G, a, b) ==
  IF b \in Ball(G, a, Len(G.nodes))
    THEN CHOOSE k \in 0..Len(G.nodes) :
           b \in Ball(G, a, k) /\ \A j \in 0..(k - 1) : b \notin Ball(G, a, j)
    ELSE -1

\* 7.5, 6.0, 4.5, 3.0 for distance 1, 2, 3, 4 and 1.0 otherwise, in tenths
Bucket(d) ==
  CASE d = 1 -> 75
    [] d = 2 -> 60
    [] d = 3 -> 45
    [] d = 4 -> 30
    [] OTHER -> 10

\* the score of a validation call is about two distinct words that are nodes
ValidatedDistinctPresent ==
  /\ pc = "validated"
  /\ last.word1 # last.word2
  /\ has_node(graph, last.word1)
  /\ has_node(graph, last.word2)

\* C20 as stated: for two distinct words that are nodes the score is 7.5, 6.0,
\* 4.5, 3.0 for distance 1, 2, 3, 4 and 1.0 in every other case, plus 2.0 and
\* capped at 10.0 for a pair of the allow-list.
C20_ScoreByDistance ==
  ValidatedDistinctPresent =>
    LET base == Bucket(Hops(graph, last.word1, last.word2)) IN
    last.result = IF <<last.word1, last.word2>> \in special_pairs
                    THEN Min(100, base + 20)
                    ELSE base

\* C20 amended: for two distinct words that are nodes the score is 0.0 when no
\* path joins them; 7.5, 6.0, 4.5, 3.0 for distance 1, 2, 3, 4, plus 2.0 and
\* capped at 10.0 for a pair of the allow-list; and 1.0 for a distance of 5 or
\* more, allow-list or not.
C20_ScoreByDistanceOrNone ==
  ValidatedDistinctPresent =>
    LET d == Hops(graph, last.word1, last.word2) IN
    last.result = IF d = -1 THEN 0
                  ELSE IF d >= 5 THEN 10
                  ELSE IF <<last.word1, last.word2>> \in special_pairs
                    THEN Min(100, Bucket(d) + 20)
                    ELSE Bucket(d)

\* the score 5.0 of an allow-list pair at distance 4
C20_Witness ==
  /\ ValidatedDistinctPresent
  /\ <<last.word1, last.word2>> \in special_pairs
  /\ Hops(graph, last.word1, last.word2) = 4
  /\ last.result = 50

\* C21: in every step of a construction run processed_words only grows and the
\* hop at which a word was processed is never set again; dequeuing a word that
\* is in processed_words only removes it from the queue: no lookup, no node, no
\* edge, no enqueue; and no word in processed_words is appended to the queue.
C21_ProcessedOnce ==
  [][ /\ processed_words \subseteq processed_words'
      /\ \A w \in DOMAIN hop_of : w \in DOMAIN hop_of' /\ hop_of'[w] = hop_of[w]
      /\ (pc = "loop" /\ queue # <<>> /\ Head(queue)[1] \in processed_words) =>
           /\ queue' = Tail(queue)
           /\ UNCHANGED <<graph, cache, files, calls, requests, processed_words, hop_of>>
      /\ (pc # "start" /\ Len(queue') > Len(queue)) =>
           /\ queue' = Append(queue, queue'[Len(queue')])
           /\ queue'[Len(queue')][1] \notin processed_words
    ]_vars

\* a word processed at hop 0 was dequeued again at hop 1 and skipped
C21_Witness ==
  /\ last.op = "iteration"
  /\ last.branch = "already processed"
  /\ last.hop = 1
  /\ last.word \in processed_words
  /\ hop_of[last.word] = 0

\* what the provider answers for w in this state: the cached outcome, or the
\* answer of the service
Outcome(w) ==
  IF w \in DOMAIN cache THEN cache[w] ELSE api[w]

\* C22: an iteration of the while loop for an unprocessed word that has no
\* definition, or that has hop > 0 and is rejected by the classifier, puts the
\* word in processed_words, removes it from the queue and changes nothing
\* else: the graph is unchanged, the candidate loop is not entered, nothing is
\* enqueued and no word other than it and the context keywords is looked up.
C22_NoDefinitionOrRejected ==
  [][ (pc = "loop" /\ queue # <<>>) =>
        LET w == Head(queue)[1]
            hop == Head(queue)[2]
            undefined == Outcome(w) = <<>>
            rejected ==
              /\ hop > 0
              /\ Outcome(w) # <<>>
              /\ ~_is_relevant(w, Outcome(w)[1].definition, Outcome(w)[1].partOfSpeech,
                               Provider).verdict
        IN
        (hop <= max_hops /\ w \notin processed_words /\ (undefined \/ rejected)) =>
          /\ processed_words' = processed_words \cup {w}
          /\ graph' = graph
          /\ queue' = Tail(queue)
          /\ pc' = "loop"
          /\ definition_words' = definition_words
          /\ \A x \in DOMAIN calls' :
               x \notin {w} \cup Range(context_keywords) =>
                 x \in DOMAIN calls /\ calls'[x] = calls[x]
    ]_vars

\* a seed token without a definition was dequeued: it is processed, has no
\* node, and the seed token after it is still in the queue
C22_Witness ==
  /\ pc = "loop"
  /\ last.op = "iteration"
  /\ last.branch = "no definition"
  /\ last.word \in processed_words
  /\ last.word \notin Range(graph.nodes)
  /\ api[last.word] = <<>>
  /\ queue # <<>>

\* the last _is_relevant call was decided by one of steps 1 to 7
DecidedBeforeLookup ==
  LET w == last.word
      keywords == Range(context_keywords)
      seed == Range(_extract_words(initial_definition))
      tokens == Range(_extract_words(last.definition_text))
  IN
  \/ Len(w) <= 2 /\ w \notin seed
  \/ last.pos \notin {"noun", "verb", "adjective"}
  \/ w \in keywords
  \/ \E k \in keywords : Len(k) > 3 /\ (IsSubstring(k, w) \/ IsSubstring(w, k))
  \/ tokens \cap keywords # {}
  \/ \E k \in keywords, t \in tokens :
       Len(k) > 3 /\ Len(t) > 3 /\ (IsSubstring(k, t) \/ IsSubstring(t, k))
  \/ w \in seed

\* the definition of keyword k contains the word of the last _is_relevant call
KeywordDefinitionHas(k) ==
  api[k] # <<>> /\ IsSubstring(last.word, Lower(api[k][1].definition))

\* the positions in context_keywords of the keywords step 8 has to look up:
\* those longer than 3, up to the first whose definition contains the word
LookedUp ==
  {i \in 1..Len(context_keywords) :
     /\ Len(context_keywords[i]) > 3
     /\ \A j \in 1..(i - 1) :
          Len(context_keywords[j]) > 3 => ~KeywordDefinitionHas(context_keywords[j])}

\* C23: an _is_relevant call that steps 1 to 7 decide makes no get_definition
\* call; one that reaches step 8 looks up, once each, the keywords longer than
\* 3 in iteration order up to the first whose definition contains the word, and
\* no keyword after it.
C23_LookupsOnlyInStep8 ==
  pc = "classified" =>
    IF DecidedBeforeLookup
      THEN calls = <<>>
      ELSE /\ DOMAIN calls = {context_keywords[i] : i \in LookedUp}
           /\ \A k \in DOMAIN calls : calls[k] = 1

\* a call decided by step 8 at the first of two keywords longer than 3: the
\* second keyword was not looked up
C23_Witness ==
  /\ pc = "classified"
  /\ ~DecidedBeforeLookup
  /\ context_keywords = <<pine, spine>>
  /\ KeywordDefinitionHas(pine)
  /\ last.result
  /\ DOMAIN calls = {pine}

\* C24: in every step of a construction run every word that has a node keeps
\* it with the same part of speech and definition, and the graph never holds
\* two nodes for one word, also when a word is accepted a second time.
C24_NodesKept ==
  [][ /\ \A w \in NodeWords(graph) :
           w \in NodeWords(graph') /\ graph'.data[w] = graph.data[w]
      /\ \A i, j \in 1..Len(graph'.nodes) :
           graph'.nodes[i] = graph'.nodes[j] => i = j
    ]_vars

\* a word that got its node in the candidate loop was dequeued at hop 1,
\* accepted again and expanded, and has one node
C24_Witness ==
  /\ last.op = "iteration"
  /\ last.branch = "expanded"
  /\ last.hop = 1
  /\ last.word \in NodeWords(graph)
  /\ Cardinality({i \in 1..Len(graph.nodes) : graph.nodes[i] = last.word}) = 1

\* C25: in every state of a construction run every entry of the queue has a
\* hop from 0 to max_hops, the hops do not decrease along the queue, and no
\* iteration of the while loop took the branch for hop > max_hops.
C25_HopsBounded ==
  /\ \A i \in 1..Len(queue) : 0 <= queue[i][2] /\ queue[i][2] <= max_hops
  /\ \A i, j \in 1..Len(queue) : i < j => queue[i][2] <= queue[j][2]
  /\ last.op = "iteration" => last.branch # "hop exceeded"

\* a queue that holds a hop-1 candidate behind a hop-0 seed token
C25_Witness ==
  /\ max_hops = 1
  /\ \E i, j \in 1..Len(queue) : i < j /\ queue[i][2] = 0 /\ queue[j][2] = 1

\* C26: in every state of a construction run the classifier accepts every
\* word that waits in the queue at hop 1 or more, as it did when the word was
\* enqueued, and no iteration of the while loop took the branch that rejects
\* the dequeued word: a word dequeued for the first time is expanded unless it
\* has no definition.
C26_VerdictStable ==
  /\ \A i \in 1..Len(queue) :
       queue[i][2] >= 1 =>
         /\ Outcome(queue[i][1]) # <<>>
         /\ _is_relevant(queue[i][1], Outcome(queue[i][1])[1].definition,
                         Outcome(queue[i][1])[1].partOfSpeech, Provider).verdict
  /\ last.op = "iteration" => last.branch # "not relevant"

\* a word outside the seed, enqueued at hop 1 by the candidate loop, was
\* dequeued and expanded
C26_Witness ==
  /\ pc = "for"
  /\ last.op = "iteration"
  /\ last.branch = "expanded"
  /\ last.hop = 1
  /\ last.word \notin SeedWords
  /\ word = last.word

C28_EdgesDefinitional ==
  \A e \in graph.edges :
    \E a \in e : \E b \in e :
      /\ e = {a, b}
      /\ a \in processed_words
      /\ b \in DefTokens(a)

\* a finished run with an edge from a processed word to a token of its
\* definition that was never processed and whose own definition does not name
\* the word
C28_Witness ==
  /\ pc = "done"
  /\ \E a \in processed_words : \E b \in DefTokens(a) :
       /\ {a, b} \in graph.edges
       /\ b \notin processed_words
       /\ a \notin DefTokens(b)
====
